---- MODULE Spec2Model ----
(***************************************************************************)
(* A model of power2orc's main.py: the YAML mapping loader, the            *)
(* fresh-instance case runner (open -> set inputs -> Run2 -> read outputs  *)
(* -> close) and the power -> ORC chained pipeline.                        *)
(*                                                                         *)
(* Python values are tagged records, so that a dict can hold numbers,      *)
(* None, strings and other dicts side by side as main.py's dicts do.       *)
(* A dict is the sequence of its items in insertion order, which is the    *)
(* order Python iterates it in.  Floats are written in thousandths         *)
(* (1.013 is 1013).                                                        *)
(***************************************************************************)
EXTENDS Integers, Sequences, FiniteSets, TLC

\* ------------------------------------------------------------------------
\* Python values
\* ------------------------------------------------------------------------
None == [t |-> "none", n |-> 0, s |-> "", d |-> <<>>]

Num(n) == [t |-> "num", n |-> n, s |-> "", d |-> <<>>]

Str(s) == [t |-> "str", n |-> 0, s |-> s, d |-> <<>>]

List == [t |-> "list", n |-> 0, s |-> "", d |-> <<>>]

\* a dict value: d is the sequence of its items [k, v] in insertion order
DictV(d) == [t |-> "dict", n |-> 0, s |-> "", d |-> d]

Item(k, v) == [k |-> k, v |-> v]

Keys(d) == {d[i].k : i \in DOMAIN d}

\* k in d
Has(d, k) == k \in Keys(d)

Index(d, k) == CHOOSE i \in DOMAIN d : d[i].k = k

\* d[k]
GetItem(d, k) == d[Index(d, k)].v

\* d.get(k, default)
Get(d, k, default) == IF Has(d, k) THEN GetItem(d, k) ELSE default

\* d[k] = v: an existing key keeps its place, a new key goes last
SetItem(d, k, v) ==
    IF Has(d, k) THEN [d EXCEPT ![Index(d, k)].v = v]
    ELSE Append(d, Item(k, v))

\* d.update(e)
RECURSIVE Update(_, _)
Update(d, e) ==
    IF Len(e) = 0 THEN d
    ELSE Update(SetItem(d, Head(e).k, Head(e).v), Tail(e))

\* ------------------------------------------------------------------------
\* Exceptions, named by the message of the raise that produces them
\* ------------------------------------------------------------------------
NoErr == "none"

ConfigNotFound == "FileNotFoundError: YAML not found"

ConfigMalformed == "ValueError: Invalid YAML: expected dict"

ConfigMissingSection == "KeyError: YAML must contain input_paths dict"

ConfigInvalidSection == "KeyError: output_paths must be dict"

ModelNotFound == "FileNotFoundError: Model not found"

EngineUnavailable == "com_error: DispatchEx/InitFromArchive2"

AddressNotFound == "RuntimeError: Aspen path not found"

UnknownInputName == "KeyError: Input not found in YAML input_paths"

EngineExecutionFailed == "com_error: Engine.Run2"

DisposalFailure == "com_error: Close"

ModeError == "ValueError: MODE must be: power_only | orc_only | power_to_orc"

\* ------------------------------------------------------------------------
\* Options and user inputs (main.py lines 8-34, 47-48)
\* ------------------------------------------------------------------------
Modes == {"power_only", "orc_only", "power_to_orc", "other"}

POWER_CASE ==
    << Item("fuelfeed", Num(50000)), Item("airfeed", Num(1000000)) >>

ORC_CASE ==
    << Item("fgastemp", Num(250000)), Item("fgaspres", Num(1013)),
       Item("fgasmsflow", Num(200000)), Item("fgasco2", Num(120)),
       Item("fgasn2", Num(750)), Item("fgasco", Num(0)),
       Item("fgaswater", Num(80)), Item("fgaso2", Num(50)) >>

POWER_MODEL == "power.apw"

ORC_MODEL == "ORC.apw"

\* the list `required` of extract_for_orc
required ==
    << "fgastemp", "fgasmsflow", "fgasco2", "fgasn2", "fgasco", "fgaswater" >>

\* ------------------------------------------------------------------------
\* Bounds
\* ------------------------------------------------------------------------
\* Run2 leaves None or a number 0..MaxResult in each result node
MaxResult == 1

ResultVals == {None} \cup {Num(n) : n \in 0..MaxResult}

\* a caller other than __main__ makes up to MaxRuns run_case_fresh calls,
\* one after the other
MaxRuns == 3

\* ------------------------------------------------------------------------
\* The mapping documents load_yaml may find on disk
\* ------------------------------------------------------------------------
Doc(isfile, data) == [isfile |-> isfile, data |-> data]

IoDoc(inp, out) ==
    Doc(TRUE, DictV(<< Item("input_paths", DictV(inp)),
                       Item("output_paths", DictV(out)) >>))

PowerIn ==
    << Item("fuelfeed", Str("pw.fuelfeed")), Item("airfeed", Str("pw.airfeed")) >>

PowerOut ==
    << Item("fgastemp", Str("pw.fgastemp")), Item("fgasco", Str("pw.fgasco")),
       Item("work", Str("pw.work")) >>

OrcIn ==
    << Item("fgastemp", Str("orc.fgastemp")), Item("fgaspres", Str("orc.fgaspres")),
       Item("fgasmsflow", Str("orc.fgasmsflow")), Item("fgasco2", Str("orc.fgasco2")),
       Item("fgasn2", Str("orc.fgasn2")), Item("fgasco", Str("orc.fgasco")),
       Item("fgaswater", Str("orc.fgaswater")), Item("fgaso2", Str("orc.fgaso2")) >>

OrcOut ==
    << Item("work", Str("orc.work")), Item("qevap", Str("orc.qevap")) >>

\* documents load_yaml rejects
BadDocs ==
    { Doc(FALSE, None),
      Doc(TRUE, List),
      Doc(TRUE, None),
      Doc(TRUE, DictV(<< Item("output_paths", DictV(PowerOut)) >>)),
      Doc(TRUE, DictV(<< Item("input_paths", Str("pw.fuelfeed")) >>)),
      Doc(TRUE, DictV(<< Item("input_paths", List),
                         Item("output_paths", Str("pw.work")) >>)),
      Doc(TRUE, DictV(<< Item("input_paths", DictV(PowerIn)),
                         Item("output_paths", List) >>)) }

PowerDocs ==
    BadDocs \cup
    { IoDoc(PowerIn, PowerOut),
      \* airfeed is not mapped
      IoDoc(SubSeq(PowerIn, 1, 1), SubSeq(PowerOut, 1, 1)),
      \* fuelfeed is not mapped; no output_paths section
      Doc(TRUE, DictV(<< Item("input_paths", DictV(SubSeq(PowerIn, 2, 2))) >>)),
      \* fuelfeed is mapped to an address the model does not have
      IoDoc(SetItem(PowerIn, "fuelfeed", Str("pw.bogus")), SubSeq(PowerOut, 3, 3)),
      \* the same, and airfeed is not mapped
      IoDoc(<< Item("fuelfeed", Str("pw.bogus")) >>, SubSeq(PowerOut, 3, 3)),
      \* fgastemp is mapped to an address the model does not have
      IoDoc(PowerIn, SetItem(PowerOut, "fgastemp", Str("pw.bogus"))),
      \* an output named "inputs"
      IoDoc(PowerIn, << Item("inputs", Str("pw.work")),
                        Item("fgastemp", Str("pw.fgastemp")) >>),
      \* empty sections
      IoDoc(<< >>, << >>) }

OrcDocs ==
    BadDocs \cup
    { IoDoc(OrcIn, OrcOut),
      \* fgaso2, the last input, is not mapped
      IoDoc(SubSeq(OrcIn, 1, 7), SubSeq(OrcOut, 1, 1)),
      \* fgastemp, the first input, is not mapped
      IoDoc(SubSeq(OrcIn, 2, 8), OrcOut),
      \* fgasco2 and qevap are mapped to addresses the model does not have
      IoDoc(SetItem(OrcIn, "fgasco2", Str("orc.bogus")),
            SetItem(OrcOut, "qevap", Str("orc.bogus"))) }

\* ------------------------------------------------------------------------
\* load_yaml
\* ------------------------------------------------------------------------
Raise(e) == [err |-> e, data |-> None]

Ok(v) == [err |-> NoErr, data |-> v]

\* a load_yaml that checks output_paths before input_paths
load_yaml_reordered(doc) ==
    IF ~doc.isfile THEN Raise(ConfigNotFound)
    ELSE IF doc.data.t # "dict" THEN Raise(ConfigMalformed)
    ELSE IF Has(doc.data.d, "output_paths")
            /\ GetItem(doc.data.d, "output_paths").t # "dict"
         THEN Raise(ConfigInvalidSection)
    ELSE IF ~Has(doc.data.d, "input_paths")
            \/ GetItem(doc.data.d, "input_paths").t # "dict"
         THEN Raise(ConfigMissingSection)
    ELSE Ok(doc.data)

load_yaml(doc) ==
    IF ~doc.isfile THEN Raise(ConfigNotFound)
    ELSE IF doc.data.t # "dict" THEN Raise(ConfigMalformed)
    ELSE IF ~Has(doc.data.d, "input_paths")
            \/ GetItem(doc.data.d, "input_paths").t # "dict"
         THEN Raise(ConfigMissingSection)
    ELSE IF Has(doc.data.d, "output_paths")
            /\ GetItem(doc.data.d, "output_paths").t # "dict"
         THEN Raise(ConfigInvalidSection)
    ELSE Ok(doc.data)

\* ------------------------------------------------------------------------
\* The engine: one Apwn.Document instance is a log of the calls made on it
\* and the variable tree (address -> value) InitFromArchive2 loaded
\* ------------------------------------------------------------------------
PowerNodes == {"pw.fuelfeed", "pw.airfeed", "pw.fgastemp", "pw.fgasco", "pw.work"}

OrcNodes ==
    {"orc.fgastemp", "orc.fgaspres", "orc.fgasmsflow", "orc.fgasco2", "orc.fgasn2",
     "orc.fgasco", "orc.fgaswater", "orc.fgaso2", "orc.work", "orc.qevap"}

\* the variable tree stored in the model archive
Archive(model) ==
    IF model = POWER_MODEL THEN [p \in PowerNodes |-> None]
    ELSE [p \in OrcNodes |-> None]

\* the nodes Engine.Run2 computes
ResultNodes(model) ==
    IF model = POWER_MODEL THEN {"pw.fgastemp", "pw.fgasco", "pw.work"}
    ELSE {"orc.work", "orc.qevap"}

NoTree == << >>

\* a deterministic engine: Run2 copies into each result node what the input
\* node wired to it holds
Wired(p) ==
    CASE p = "pw.work" -> "pw.fuelfeed"
      [] p = "pw.fgastemp" -> "pw.airfeed"
      [] p = "pw.fgasco" -> "pw.airfeed"
      [] p = "orc.work" -> "orc.fgastemp"
      [] OTHER -> "orc.fgasco"

Solve(model, tree) == [p \in ResultNodes(model) |-> tree[Wired(p)]]

Call(op, arg) == [op |-> op, arg |-> arg]

\* aspen.Tree.FindNode(path) is not None
FindNode(tree, path) == path \in DOMAIN tree

\* open_aspen: isfile, dispatched and inited are what os.path.isfile,
\* DispatchEx and InitFromArchive2 do; created says an instance now exists.
\* When InitFromArchive2 raises, the instance DispatchEx created is dropped
\* without a call of Close.  Line 82 (aspen.Visible) changes nothing the
\* model keeps.
open_aspen(model_path, isfile, dispatched, inited) ==
    IF ~isfile THEN
        [err |-> ModelNotFound, created |-> FALSE, log |-> << >>, tree |-> NoTree]
    ELSE IF ~dispatched THEN
        [err |-> EngineUnavailable, created |-> FALSE, log |-> << >>, tree |-> NoTree]
    ELSE IF ~inited THEN
        [err |-> EngineUnavailable, created |-> TRUE,
         log |-> << Call("DispatchEx", ""), Call("InitFromArchive2:raise", model_path) >>,
         tree |-> NoTree]
    ELSE
        [err |-> NoErr, created |-> TRUE,
         log |-> << Call("DispatchEx", ""), Call("InitFromArchive2", model_path) >>,
         tree |-> Archive(model_path)]

\* a close_aspen without its try/except
close_aspen_unguarded(closeErr) == closeErr

\* close_aspen: closeErr is what aspen.Close(False) raises; the result is
\* what close_aspen lets out
close_aspen(closeErr) == NoErr

set_value(tree, path, value) ==
    IF ~FindNode(tree, path) THEN
        [err |-> AddressNotFound, tree |-> tree,
         log |-> << Call("SetValue:NoNode", path) >>]
    ELSE
        [err |-> NoErr, tree |-> [tree EXCEPT ![path] = value],
         log |-> << Call("SetValue", path) >>]

\* a get_value that answers 0 for an address the model does not have
get_value_zero(tree, path) ==
    IF ~FindNode(tree, path) THEN
        [value |-> Num(0), log |-> << Call("GetValue:NoNode", path) >>]
    ELSE
        [value |-> tree[path], log |-> << Call("GetValue", path) >>]

get_value(tree, path) ==
    IF ~FindNode(tree, path) THEN
        [value |-> None, log |-> << Call("GetValue:NoNode", path) >>]
    ELSE
        [value |-> tree[path], log |-> << Call("GetValue", path) >>]

\* a loop body that skips a name it does not find in input_paths
set_input_skip_unknown(tree, input_paths, name, val) ==
    IF ~Has(input_paths, name) THEN
        [err |-> NoErr, tree |-> tree, log |-> << >>]
    ELSE set_value(tree, GetItem(input_paths, name).s, val)

\* lines 119-121, the body of the loop over inputs.items()
set_input(tree, input_paths, name, val) ==
    IF ~Has(input_paths, name) THEN
        [err |-> UnknownInputName, tree |-> tree, log |-> << >>]
    ELSE set_value(tree, GetItem(input_paths, name).s, val)

\* extract_for_orc
RECURSIVE ExtractLoop(_, _, _)
ExtractLoop(orc_in, ks, power_out) ==
    IF Len(ks) = 0 THEN orc_in
    ELSE ExtractLoop(SetItem(orc_in, Head(ks), Get(power_out, Head(ks), None)),
                     Tail(ks), power_out)

\* an extract_for_orc that passes every output of the power model on
extract_for_orc_all(power_out) == power_out

extract_for_orc(power_out) == ExtractLoop(<< >>, required, power_out)

\* no filter at all: an item that is None is kept
NotNone_keep_all(d) == d

\* `if v` in place of `if v is not None`: a propagated 0 is dropped too
NotNone_truthy(d) == SelectSeq(d, LAMBDA it : it.v # None /\ it.v # Num(0))

\* {k: v for k, v in d.items() if v is not None}
NotNone(d) == SelectSeq(d, LAMBDA it : it.v # None)

\* {k: v for k, v in d.items() if k != "inputs"}
NotInputs(d) == SelectSeq(d, LAMBDA it : it.k # "inputs")

\* an update of ORC_CASE itself: orc_inputs = ORC_CASE in place of the copy
merge_defaults_aliased(defaults, from_power) == Update(defaults, NotNone(from_power))

\* what the dict passed as defaults holds after lines 199-200, which
\* update a copy of it
merge_defaults(defaults, from_power) == defaults

\* orc_inputs = dict(ORC_CASE); orc_inputs.update(...)
merge_inputs(defaults, from_power) == Update(defaults, NotNone(from_power))

\* ------------------------------------------------------------------------
\* State
\* ------------------------------------------------------------------------
VARIABLES
    pc,              \* where __main__ is
    mode,            \* MODE
    power_map,       \* load_yaml(POWER_YAML), None before
    orc_map,         \* load_yaml(ORC_YAML), None before
    power_res,       \* the dicts of __main__, << >> before they are assigned
    power_out,
    orc_from_power,
    orc_inputs,
    orc_res,
    exc,             \* the exception that ended the process, NoErr if none
    rc,              \* the frame of the run_case_fresh call in progress
    sessions,        \* every Apwn.Document instance created so far, oldest first
    power_yaml,      \* the document at POWER_YAML
    orc_yaml,        \* the document at ORC_YAML
    globals,         \* the module-level dicts POWER_CASE and ORC_CASE
    hist             \* the run_case_fresh calls a caller other than __main__
                     \* has completed, oldest first

vars ==
    << pc, mode, power_map, orc_map, power_res, power_out, orc_from_power,
       orc_inputs, orc_res, exc, rc, sessions, power_yaml, orc_yaml, globals,
       hist >>

\* what no step of __main__ or run_case_fresh assigns
env == << power_yaml, orc_yaml, globals, hist >>

mainDicts == << power_res, power_out, orc_from_power, orc_inputs, orc_res >>

IdleFrame ==
    [step |-> "idle", model |-> "", input_paths |-> << >>, output_paths |-> << >>,
     inputs |-> << >>, aspen |-> 0, i |-> 1, j |-> 1, out |-> << >>,
     err |-> NoErr, raised |-> NoErr]

\* entering run_case_fresh: lines 112-113
Frame(model_path, io_map, inputs) ==
    [step |-> "open", model |-> model_path,
     input_paths |-> GetItem(io_map.d, "input_paths").d,
     output_paths |-> Get(io_map.d, "output_paths", DictV(<< >>)).d,
     inputs |-> inputs, aspen |-> 0, i |-> 1, j |-> 1, out |-> << >>,
     err |-> NoErr, raised |-> NoErr]

\* a run_case_fresh without try/finally: a raise leaves it at once
OnRaise_no_finally == "ret"

\* a run_case_fresh that swallows the raise and goes on to collect outputs
OnRaise_swallowed == "read"

\* where a raise inside the try block of run_case_fresh goes: the finally
OnRaise == "close"

\* a finally block that returns, which drops the exception of the body
Finally_returns(bodyErr, closeErr) == closeErr

\* what leaves a try/finally whose body ended with bodyErr and whose
\* finally block let closeErr out
Finally(bodyErr, closeErr) == IF closeErr # NoErr THEN closeErr ELSE bodyErr

\* a __main__ that catches the exception of a stage and carries on
OnFailure_carry_on == "extract"

\* where an uncaught exception of run_case_fresh takes __main__
OnFailure == "failed"

\* the instance the local variable aspen of run_case_fresh is bound to
Cur == sessions[rc.aspen]

Logged(calls) == [sessions EXCEPT ![rc.aspen].log = Cur.log \o calls]

Init ==
    /\ pc = "load_power"
    /\ mode \in Modes
    /\ power_map = None
    /\ orc_map = None
    /\ power_res = << >>
    /\ power_out = << >>
    /\ orc_from_power = << >>
    /\ orc_inputs = << >>
    /\ orc_res = << >>
    /\ exc = NoErr
    /\ rc = IdleFrame
    /\ sessions = << >>
    /\ power_yaml \in PowerDocs
    /\ orc_yaml \in OrcDocs
    /\ globals = [POWER_CASE |-> POWER_CASE, ORC_CASE |-> ORC_CASE]
    /\ hist = << >>

\* ------------------------------------------------------------------------
\* __main__: loading the two mapping documents
\* ------------------------------------------------------------------------
LoadPowerYaml ==
    /\ pc = "load_power"
    /\ LET r == load_yaml(power_yaml) IN
          IF r.err # NoErr
          THEN /\ pc' = "failed"
               /\ exc' = r.err
               /\ UNCHANGED power_map
          ELSE /\ pc' = "load_orc"
               /\ power_map' = r.data
               /\ UNCHANGED exc
    /\ UNCHANGED << env, mode, orc_map, mainDicts, rc, sessions >>

\* a __main__ that loads the ORC mapping only in the modes that run the ORC
\* model
LoadOrcYaml_lazy ==
    /\ pc = "load_orc"
    /\ LET r == IF mode = "power_only" THEN Ok(None) ELSE load_yaml(orc_yaml) IN
          IF r.err # NoErr
          THEN /\ pc' = "failed"
               /\ exc' = r.err
               /\ UNCHANGED orc_map
          ELSE /\ pc' = "select_mode"
               /\ orc_map' = r.data
               /\ UNCHANGED exc
    /\ UNCHANGED << env, mode, power_map, mainDicts, rc, sessions >>

LoadOrcYaml ==
    /\ pc = "load_orc"
    /\ LET r == load_yaml(orc_yaml) IN
          IF r.err # NoErr
          THEN /\ pc' = "failed"
               /\ exc' = r.err
               /\ UNCHANGED orc_map
          ELSE /\ pc' = "select_mode"
               /\ orc_map' = r.data
               /\ UNCHANGED exc
    /\ UNCHANGED << env, mode, power_map, mainDicts, rc, sessions >>

\* ------------------------------------------------------------------------
\* run_case_fresh, one engine call at a time
\* ------------------------------------------------------------------------
\* an open_aspen that hands out the document of the call before, with the
\* values that call set still in its tree, when the model is the same
OpenAspen_reused ==
    /\ rc.step = "open"
    /\ \E isfile, dispatched, inited \in BOOLEAN :
          LET r == open_aspen(rc.model, isfile, dispatched, inited)
              last == hist[Len(hist)]
              SetBy(p) == {i \in DOMAIN last.inputs :
                              /\ Has(last.input_paths, last.inputs[i].k)
                              /\ GetItem(last.input_paths, last.inputs[i].k).s = p}
              tree == IF r.tree = NoTree \/ hist = << >> THEN r.tree
                      ELSE IF last.model # rc.model THEN r.tree
                      ELSE [p \in DOMAIN r.tree |->
                              IF SetBy(p) = {} THEN r.tree[p]
                              ELSE last.inputs[CHOOSE i \in SetBy(p) : TRUE].v]
          IN
          /\ sessions' = IF r.created
                         THEN Append(sessions, [model |-> rc.model, log |-> r.log,
                                                tree |-> tree])
                         ELSE sessions
          /\ rc' = IF r.err # NoErr
                   THEN [rc EXCEPT !.step = "ret", !.err = r.err, !.raised = r.err]
                   ELSE [rc EXCEPT !.step = "set", !.aspen = Len(sessions) + 1]
    /\ UNCHANGED << env, pc, mode, power_map, orc_map, mainDicts, exc >>

\* line 115: open_aspen; it is outside the try block
OpenAspen ==
    /\ rc.step = "open"
    /\ \E isfile, dispatched, inited \in BOOLEAN :
          LET r == open_aspen(rc.model, isfile, dispatched, inited) IN
          /\ sessions' = IF r.created
                         THEN Append(sessions, [model |-> rc.model, log |-> r.log,
                                                tree |-> r.tree])
                         ELSE sessions
          /\ rc' = IF r.err # NoErr
                   THEN [rc EXCEPT !.step = "ret", !.err = r.err, !.raised = r.err]
                   ELSE [rc EXCEPT !.step = "set", !.aspen = Len(sessions) + 1]
    /\ UNCHANGED << env, pc, mode, power_map, orc_map, mainDicts, exc >>

\* lines 118-121: one iteration of the loop over inputs.items()
SetInput ==
    /\ rc.step = "set"
    /\ rc.i <= Len(rc.inputs)
    /\ LET r == set_input(Cur.tree, rc.input_paths, rc.inputs[rc.i].k,
                          rc.inputs[rc.i].v)
       IN
       /\ sessions' = [Logged(r.log) EXCEPT ![rc.aspen].tree = r.tree]
       /\ rc' = IF r.err # NoErr
                THEN [rc EXCEPT !.step = OnRaise, !.err = r.err, !.raised = r.err]
                ELSE [rc EXCEPT !.i = rc.i + 1]
    /\ UNCHANGED << env, pc, mode, power_map, orc_map, mainDicts, exc >>

\* a run_case_fresh that returns out without closing the instance
AfterRead_no_close(j) == IF j <= Len(rc.output_paths) THEN "read" ELSE "ret"

\* the step after the loop over output_paths.items() has read output j - 1
AfterRead(j) == IF j <= Len(rc.output_paths) THEN "read" ELSE "close"

\* lines 124-127: aspen.Engine.Run2() and out = {"inputs": dict(inputs)}
RunEngine ==
    /\ rc.step = "set"
    /\ rc.i > Len(rc.inputs)
    /\ \/ \E res \in [ResultNodes(rc.model) -> ResultVals] :
            /\ sessions' =
                  [Logged(<< Call("Run2", "") >>) EXCEPT
                     ![rc.aspen].tree =
                        [p \in DOMAIN Cur.tree |->
                           IF p \in DOMAIN res THEN res[p] ELSE Cur.tree[p]]]
            /\ rc' = [rc EXCEPT !.step = AfterRead(1),
                                !.out = << Item("inputs", DictV(rc.inputs)) >>]
       \/ /\ sessions' = Logged(<< Call("Run2:raise", "") >>)
          /\ rc' = [rc EXCEPT !.step = OnRaise, !.err = EngineExecutionFailed,
                              !.raised = EngineExecutionFailed]
    /\ UNCHANGED << env, pc, mode, power_map, orc_map, mainDicts, exc >>

\* lines 124-127 with the deterministic engine
RunEngineDet ==
    /\ rc.step = "set"
    /\ rc.i > Len(rc.inputs)
    /\ \/ LET res == Solve(rc.model, Cur.tree) IN
            /\ sessions' =
                  [Logged(<< Call("Run2", "") >>) EXCEPT
                     ![rc.aspen].tree =
                        [p \in DOMAIN Cur.tree |->
                           IF p \in DOMAIN res THEN res[p] ELSE Cur.tree[p]]]
            /\ rc' = [rc EXCEPT !.step = AfterRead(1),
                                !.out = << Item("inputs", DictV(rc.inputs)) >>]
       \/ /\ sessions' = Logged(<< Call("Run2:raise", "") >>)
          /\ rc' = [rc EXCEPT !.step = OnRaise, !.err = EngineExecutionFailed,
                              !.raised = EngineExecutionFailed]
    /\ UNCHANGED << env, pc, mode, power_map, orc_map, mainDicts, exc >>

\* lines 128-129: one iteration of the loop over output_paths.items()
ReadOutput ==
    /\ rc.step = "read"
    /\ rc.j <= Len(rc.output_paths)
    /\ LET name == rc.output_paths[rc.j].k
           r == get_value(Cur.tree, rc.output_paths[rc.j].v.s)
       IN
       /\ sessions' = Logged(r.log)
       /\ rc' = [rc EXCEPT !.out = SetItem(rc.out, name, r.value),
                           !.j = rc.j + 1,
                           !.step = AfterRead(rc.j + 1)]
    /\ UNCHANGED << env, pc, mode, power_map, orc_map, mainDicts, exc >>

\* lines 131-132: the finally block
CloseAspen ==
    /\ rc.step = "close"
    /\ \E closeErr \in {NoErr, DisposalFailure} :
          /\ sessions' =
                [Logged(<< Call(IF closeErr = NoErr THEN "Close" ELSE "Close:raise", "") >>)
                   EXCEPT ![rc.aspen].tree = NoTree]
          /\ rc' = [rc EXCEPT !.step = "ret",
                              !.raised = Finally(rc.err, close_aspen(closeErr))]
    /\ UNCHANGED << env, pc, mode, power_map, orc_map, mainDicts, exc >>

\* ------------------------------------------------------------------------
\* __main__: the three modes
\* ------------------------------------------------------------------------
\* lines 171-173
StartPowerOnly ==
    /\ pc = "select_mode"
    /\ mode = "power_only"
    /\ pc' = "power_only"
    /\ rc' = Frame(POWER_MODEL, power_map, globals.POWER_CASE)
    /\ UNCHANGED << env, mode, power_map, orc_map, mainDicts, exc, sessions >>

\* lines 173-177
FinishPowerOnly ==
    /\ pc = "power_only"
    /\ rc.step = "ret"
    /\ IF rc.raised # NoErr
       THEN /\ pc' = OnFailure
            /\ exc' = rc.raised
            /\ UNCHANGED power_res
       ELSE /\ pc' = "done"
            /\ power_res' = rc.out
            /\ UNCHANGED exc
    /\ rc' = IdleFrame
    /\ UNCHANGED << env, mode, power_map, orc_map, power_out, orc_from_power,
                    orc_inputs, orc_res, sessions >>

\* lines 179-181
StartOrcOnly ==
    /\ pc = "select_mode"
    /\ mode = "orc_only"
    /\ pc' = "orc_only"
    /\ rc' = Frame(ORC_MODEL, orc_map, globals.ORC_CASE)
    /\ UNCHANGED << env, mode, power_map, orc_map, mainDicts, exc, sessions >>

\* lines 181-185
FinishOrcOnly ==
    /\ pc = "orc_only"
    /\ rc.step = "ret"
    /\ IF rc.raised # NoErr
       THEN /\ pc' = OnFailure
            /\ exc' = rc.raised
            /\ UNCHANGED orc_res
       ELSE /\ pc' = "done"
            /\ orc_res' = rc.out
            /\ UNCHANGED exc
    /\ rc' = IdleFrame
    /\ UNCHANGED << env, mode, power_map, orc_map, power_res, power_out,
                    orc_from_power, orc_inputs, sessions >>

\* lines 187-191: the call of stage A
StartStageA ==
    /\ pc = "select_mode"
    /\ mode = "power_to_orc"
    /\ pc' = "stage_a"
    /\ rc' = Frame(POWER_MODEL, power_map, globals.POWER_CASE)
    /\ UNCHANGED << env, mode, power_map, orc_map, mainDicts, exc, sessions >>

\* lines 191-192: stage A returns or raises; power_out
FinishStageA ==
    /\ pc = "stage_a"
    /\ rc.step = "ret"
    /\ IF rc.raised # NoErr
       THEN /\ pc' = OnFailure
            /\ exc' = rc.raised
            /\ UNCHANGED << power_res, power_out >>
       ELSE /\ pc' = "extract"
            /\ power_res' = rc.out
            /\ power_out' = NotInputs(rc.out)
            /\ UNCHANGED exc
    /\ rc' = IdleFrame
    /\ UNCHANGED << env, mode, power_map, orc_map, orc_from_power, orc_inputs,
                    orc_res, sessions >>

\* line 195
Extract ==
    /\ pc = "extract"
    /\ orc_from_power' = extract_for_orc(power_out)
    /\ pc' = "merge"
    /\ UNCHANGED << env, mode, power_map, orc_map, power_res, power_out, orc_inputs,
                    orc_res, exc, rc, sessions >>

\* lines 199-200
Merge ==
    /\ pc = "merge"
    /\ orc_inputs' = merge_inputs(globals.ORC_CASE, orc_from_power)
    /\ globals' = [globals EXCEPT
                     !.ORC_CASE = merge_defaults(globals.ORC_CASE, orc_from_power)]
    /\ pc' = "call_b"
    /\ UNCHANGED << power_yaml, orc_yaml, hist, mode, power_map, orc_map, power_res, power_out,
                    orc_from_power, orc_res, exc, rc, sessions >>

\* line 203: the call of stage B
StartStageB ==
    /\ pc = "call_b"
    /\ pc' = "stage_b"
    /\ rc' = Frame(ORC_MODEL, orc_map, orc_inputs)
    /\ UNCHANGED << env, mode, power_map, orc_map, mainDicts, exc, sessions >>

\* lines 203-213: stage B returns or raises; the results are printed
FinishStageB ==
    /\ pc = "stage_b"
    /\ rc.step = "ret"
    /\ IF rc.raised # NoErr
       THEN /\ pc' = OnFailure
            /\ exc' = rc.raised
            /\ UNCHANGED orc_res
       ELSE /\ pc' = "done"
            /\ orc_res' = rc.out
            /\ UNCHANGED exc
    /\ rc' = IdleFrame
    /\ UNCHANGED << env, mode, power_map, orc_map, power_res, power_out,
                    orc_from_power, orc_inputs, sessions >>

\* lines 215-216
BadMode ==
    /\ pc = "select_mode"
    /\ mode \notin {"power_only", "orc_only", "power_to_orc"}
    /\ pc' = "failed"
    /\ exc' = ModeError
    /\ UNCHANGED << env, mode, power_map, orc_map, mainDicts, rc, sessions >>

Next ==
    \/ LoadPowerYaml
    \/ LoadOrcYaml
    \/ StartPowerOnly
    \/ FinishPowerOnly
    \/ StartOrcOnly
    \/ FinishOrcOnly
    \/ StartStageA
    \/ FinishStageA
    \/ Extract
    \/ Merge
    \/ StartStageB
    \/ FinishStageB
    \/ BadMode
    \/ OpenAspen
    \/ SetInput
    \/ RunEngine
    \/ ReadOutput
    \/ CloseAspen

Spec == Init /\ [][Next]_vars

\* the interpreter runs the statements of __main__ one after the other: as
\* long as a statement is left to run, and every engine call returns, one
\* is run
FairSpec == Spec /\ WF_vars(Next)

\* ------------------------------------------------------------------------
\* run_case_fresh called several times in a row, by a caller other than
\* __main__, against the deterministic engine
\* ------------------------------------------------------------------------
\* the (model_path, io_map, inputs) such a caller passes
TestCases ==
    { [model |-> POWER_MODEL, io_map |-> IoDoc(PowerIn, PowerOut).data,
       inputs |-> << Item("fuelfeed", Num(1)) >>],
      [model |-> POWER_MODEL, io_map |-> IoDoc(PowerIn, PowerOut).data,
       inputs |-> << Item("airfeed", Num(2)) >>],
      [model |-> ORC_MODEL, io_map |-> IoDoc(OrcIn, OrcOut).data,
       inputs |-> << Item("fgastemp", Num(3)) >>] }

IsoInit ==
    /\ pc = "test"
    /\ mode = "other"
    /\ power_map = None
    /\ orc_map = None
    /\ power_res = << >>
    /\ power_out = << >>
    /\ orc_from_power = << >>
    /\ orc_inputs = << >>
    /\ orc_res = << >>
    /\ exc = NoErr
    /\ rc = IdleFrame
    /\ sessions = << >>
    /\ power_yaml = IoDoc(PowerIn, PowerOut)
    /\ orc_yaml = IoDoc(OrcIn, OrcOut)
    /\ globals = [POWER_CASE |-> POWER_CASE, ORC_CASE |-> ORC_CASE]
    /\ hist = << >>

\* the caller calls run_case_fresh(model_path, io_map, inputs)
TestCall ==
    /\ pc = "test"
    /\ rc.step = "idle"
    /\ Len(hist) < MaxRuns
    /\ \E c \in TestCases : rc' = Frame(c.model, c.io_map, c.inputs)
    /\ UNCHANGED << env, pc, mode, power_map, orc_map, mainDicts, exc, sessions >>

\* run_case_fresh returns to the caller or raises; the caller notes what it
\* passed and what it got
TestReturn ==
    /\ pc = "test"
    /\ rc.step = "ret"
    /\ hist' = Append(hist, [model |-> rc.model, input_paths |-> rc.input_paths,
                             output_paths |-> rc.output_paths,
                             inputs |-> rc.inputs, raised |-> rc.raised,
                             out |-> rc.out])
    /\ rc' = IdleFrame
    /\ UNCHANGED << power_yaml, orc_yaml, globals, pc, mode, power_map, orc_map,
                    mainDicts, exc, sessions >>

IsoNext ==
    \/ TestCall
    \/ OpenAspen
    \/ SetInput
    \/ RunEngineDet
    \/ ReadOutput
    \/ CloseAspen
    \/ TestReturn

IsoSpec == IsoInit /\ [][IsoNext]_vars

\* ------------------------------------------------------------------------
\* Properties
\* ------------------------------------------------------------------------
Ops(log) == [i \in DOMAIN log |-> log[i].op]

Count(log, ops) == Cardinality({i \in DOMAIN log : log[i].op \in ops})

CloseOps == {"Close", "Close:raise"}

\* the number of times Close was called on instance s
Closes(s) == Count(s.log, CloseOps)

\* open_aspen returned instance s
Opened(s) == Count(s.log, {"InitFromArchive2"}) = 1

\* a run_case_fresh call is between its first and its last statement
Running == rc.step \in {"open", "set", "read", "close"}

\* the run_case_fresh call that holds instance k has not left yet
Held(k) == Running /\ rc.aspen = k

\* the inputs of the current call hold a name input_paths does not have
UnknownAt(i) == ~Has(rc.input_paths, rc.inputs[i].k)

HasUnknown == rc.step # "idle" /\ \E i \in DOMAIN rc.inputs : UnknownAt(i)

\* the place of the first such name in iteration order
FirstUnknown == CHOOSE i \in DOMAIN rc.inputs :
                    UnknownAt(i) /\ \A h \in 1..(i - 1) : ~UnknownAt(h)

\* C1: an instance open_aspen returned is closed at most once, and exactly
\* once by the time its run_case_fresh call returns or raises, wherever the
\* call failed.
C1_DisposedExactlyOnce ==
    \A k \in DOMAIN sessions :
        Opened(sessions[k]) =>
            /\ Closes(sessions[k]) <= 1
            /\ ~Held(k) => Closes(sessions[k]) = 1

\* a call that failed while setting an input has returned, its instance closed
C1_Witness ==
    /\ rc.step = "ret"
    /\ rc.aspen # 0
    /\ rc.err = AddressNotFound
    /\ Closes(Cur) = 1

\* C2, as claimed: a call whose inputs hold a name input_paths does not have
\* never calls SetValue and, once open_aspen has returned, fails with
\* UnknownInputName.
C2_Original ==
    HasUnknown =>
        /\ rc.aspen # 0 => Count(Cur.log, {"SetValue"}) = 0
        /\ (rc.step = "ret" /\ rc.aspen # 0) => rc.raised = UnknownInputName

\* C2, amended: such a call fails; SetValue is called only for the inputs
\* that precede the first unknown name in iteration order, in that order; and
\* once open_aspen has returned the call fails with UnknownInputName unless
\* an input before the unknown name had an address the model does not have.
C2_UnknownInputStopsSetting ==
    HasUnknown =>
        /\ rc.step = "ret" => rc.raised # NoErr
        /\ rc.aspen # 0 =>
              LET sets == SelectSeq(Cur.log, LAMBDA c : c.op = "SetValue") IN
              /\ Len(sets) <= FirstUnknown - 1
              /\ \A h \in DOMAIN sets :
                    sets[h].arg = GetItem(rc.input_paths, rc.inputs[h].k).s
              /\ rc.step = "ret" =>
                    \/ rc.raised = UnknownInputName
                    \/ /\ rc.raised = AddressNotFound
                       /\ Count(Cur.log, {"SetValue:NoNode"}) = 1
                       /\ Len(sets) < FirstUnknown - 1

\* fuelfeed was set, then airfeed was not found in input_paths
C2_Witness ==
    /\ HasUnknown
    /\ rc.step = "ret"
    /\ rc.aspen # 0
    /\ rc.raised = UnknownInputName
    /\ Count(Cur.log, {"SetValue"}) > 0

\* C3: a call whose inputs hold a name input_paths does not have never runs
\* the engine, never collects outputs and ends by raising.
C3_UnknownInputNeverRuns ==
    HasUnknown =>
        /\ rc.step # "read"
        /\ rc.out = << >>
        /\ rc.aspen # 0 => Count(Cur.log, {"Run2", "Run2:raise"}) = 0
        /\ rc.step = "ret" => rc.raised # NoErr

\* the unknown name was reached and the call has ended
C3_Witness ==
    /\ HasUnknown
    /\ rc.step = "ret"
    /\ rc.err = UnknownInputName
    /\ Closes(Cur) = 1

\* the chained pipeline has built the inputs of stage B
Merged == mode = "power_to_orc" /\ pc \in {"call_b", "stage_b", "done"}

\* stage A harvested a value other than None for output name n
Produced(n) ==
    /\ n # "inputs"
    /\ Has(power_res, n)
    /\ GetItem(power_res, n) # None

InSpec(n) == \E i \in DOMAIN required : required[i] = n

AllNames ==
    Keys(ORC_CASE) \cup Keys(power_res) \cup Keys(orc_inputs)
        \cup {required[i] : i \in DOMAIN required}

\* C4: the inputs of stage B are ORC_CASE overlaid by the values stage A
\* produced for the names of `required`: a name of `required` with a value
\* other than None carries that value, any other name carries its default
\* if it has one and is otherwise not an input.
C4_MergePrecedence ==
    Merged =>
        \A n \in AllNames :
            IF InSpec(n) /\ Produced(n)
            THEN Has(orc_inputs, n) /\ GetItem(orc_inputs, n) = GetItem(power_res, n)
            ELSE IF Has(ORC_CASE, n)
            THEN Has(orc_inputs, n) /\ GetItem(orc_inputs, n) = GetItem(ORC_CASE, n)
            ELSE ~Has(orc_inputs, n)

\* stage A produced 0 for fgastemp, which replaces the default 250, and None
\* for fgasco, which keeps its default; work is no input of stage B
C4_Witness ==
    /\ pc = "call_b"
    /\ GetItem(power_res, "fgastemp") = Num(0)
    /\ GetItem(orc_inputs, "fgastemp") = Num(0)
    /\ Has(power_res, "fgasco") /\ GetItem(power_res, "fgasco") = None
    /\ GetItem(orc_inputs, "fgasco") = GetItem(ORC_CASE, "fgasco")
    /\ Produced("work")

\* stage A of the chained pipeline has raised
StageAFailed ==
    /\ mode = "power_to_orc"
    /\ \/ pc = "stage_a" /\ rc.step = "ret" /\ rc.raised # NoErr
       \/ pc = "failed" /\ power_res = << >> /\ orc_map # None

\* no part of stage B has happened
NoStageB ==
    /\ rc.model # ORC_MODEL
    /\ \A k \in DOMAIN sessions : sessions[k].model # ORC_MODEL
    /\ orc_inputs = << >>
    /\ orc_res = << >>

\* C5: when stage A of the chained pipeline fails, the next step of the
\* pipeline is Failed, and no stage-B call is made nor instance created.
C5_StageAFailureStopsPipeline ==
    /\ [](StageAFailed => (pc \in {"stage_a", "failed"} /\ NoStageB))
    /\ [][(StageAFailed /\ pc = "stage_a" /\ pc' # pc) => pc' = "failed"]_vars

\* stage A failed in Run2 and the process has ended
C5_Witness ==
    /\ StageAFailed
    /\ pc = "failed"
    /\ exc = EngineExecutionFailed

\* C6: at most one instance exists on which Close has not been called,
\* instances a failed open_aspen left behind included.
C6_AtMostOneSessionOpen ==
    Cardinality({k \in DOMAIN sessions : Closes(sessions[k]) = 0}) <= 1

\* stage B holds an open instance after stage A closed its own
C6_Witness ==
    /\ Len(sessions) = 2
    /\ Closes(sessions[1]) = 1
    /\ Opened(sessions[2])
    /\ Closes(sessions[2]) = 0
    /\ rc.step = "read"

SetOps == {"SetValue", "SetValue:NoNode"}

RunOps == {"Run2", "Run2:raise"}

GetOps == {"GetValue", "GetValue:NoNode"}

\* the calls of log are in the order of the session life cycle
LifeCycle(log) ==
    LET at(ops) == {i \in DOMAIN log : log[i].op \in ops} IN
    /\ Len(log) >= 2
    /\ log[1].op = "DispatchEx"
    /\ log[2].op \in {"InitFromArchive2", "InitFromArchive2:raise"}
    /\ log[2].op = "InitFromArchive2:raise" => Len(log) = 2
    /\ \A i \in DOMAIN log : i > 2 => log[i].op \in SetOps \cup RunOps \cup GetOps \cup CloseOps
    /\ Cardinality(at(RunOps)) <= 1
    /\ \A i \in at(SetOps) : \A r \in at(RunOps \cup GetOps) : i < r
    /\ \A i \in at(SetOps) : log[i].op = "SetValue:NoNode" => at(RunOps) = {}
    /\ \A i \in at(GetOps) : \E r \in at({"Run2"}) : r < i
    /\ \A i \in at(CloseOps) : i = Len(log)

\* C7: on every instance, every set precedes the one Run2, every read
\* follows a Run2 that succeeded, and Close is the last call.
C7_SessionLifeCycle ==
    \A k \in DOMAIN sessions : LifeCycle(sessions[k].log)

\* a session that was configured, executed, read and closed
C7_Witness ==
    \E k \in DOMAIN sessions :
        /\ Ops(sessions[k].log) =
              << "DispatchEx", "InitFromArchive2", "SetValue", "SetValue", "Run2",
                 "GetValue:NoNode", "GetValue", "GetValue", "Close" >>

\* open_aspen raised in the current run_case_fresh call
OpenFailed ==
    /\ rc.step = "ret"
    /\ rc.aspen = 0
    /\ rc.raised \in {ModelNotFound, EngineUnavailable}

\* C8, as claimed: when open_aspen raises, no instance is left on which
\* Close was never called.
C8_NoPartialSession ==
    OpenFailed => \A k \in DOMAIN sessions : Closes(sessions[k]) >= 1

\* Close raised on instance s
CloseRaised(s) == Count(s.log, {"Close:raise"}) = 1

\* C9: when Close raises, run_case_fresh still ends the way its try block
\* ended: it returns out if the block returned, and raises the exception
\* of the block otherwise; the exception of Close never reaches __main__.
C9_DisposalFailureSwallowed ==
    /\ exc # DisposalFailure
    /\ (rc.step = "ret" /\ rc.aspen # 0 /\ CloseRaised(Cur)) =>
          /\ rc.raised = rc.err
          /\ rc.err = NoErr => Has(rc.out, "inputs")
          /\ rc.err # NoErr =>
                rc.err \in {UnknownInputName, AddressNotFound, EngineExecutionFailed}

\* Close raised in stage A, which returned its results all the same, and in
\* stage B, which raises the KeyError of its try block
C9_Witness ==
    /\ Len(sessions) = 2
    /\ CloseRaised(sessions[1])
    /\ Has(power_res, "inputs")
    /\ rc.step = "ret"
    /\ rc.aspen = 2
    /\ CloseRaised(sessions[2])
    /\ rc.raised = UnknownInputName

\* output j of the current call has an address the model does not have
Unresolved(j) == rc.output_paths[j].v.s \notin DOMAIN Archive(rc.model)

\* the outputs of the current call read so far
ReadSoFar == 1..(rc.j - 1)

\* C10: an output whose address the model does not have is None in out and
\* does not end the call: every output is read, the instance is closed and
\* out is returned with every output name in it.
C10_HarvestMissIsAbsent ==
    (rc.aspen # 0 /\ \E j \in ReadSoFar : Unresolved(j)) =>
        /\ rc.err = NoErr
        /\ \A j \in ReadSoFar :
              /\ Has(rc.out, rc.output_paths[j].k)
              /\ Unresolved(j) => GetItem(rc.out, rc.output_paths[j].k) = None
        /\ Count(Cur.log, GetOps) = rc.j - 1
        /\ rc.step \in {"read", "close", "ret"}
        /\ rc.step # "read" => rc.j = Len(rc.output_paths) + 1
        /\ rc.step = "ret" => (rc.raised = NoErr /\ Closes(Cur) = 1)

\* the first output was not found, the later ones were read, out is returned
C10_Witness ==
    /\ rc.step = "ret"
    /\ rc.aspen # 0
    /\ Len(rc.output_paths) = 3
    /\ Unresolved(1)
    /\ rc.raised = NoErr
    /\ GetItem(rc.out, "fgastemp") = None
    /\ GetItem(rc.out, "work") = Num(1)

\* C11, as claimed: the dict a run_case_fresh call returns holds the inputs
\* it was given under "inputs", and its other names are exactly the names of
\* output_paths.
C11_ResultSetShape ==
    (rc.step = "ret" /\ rc.raised = NoErr) =>
        /\ Has(rc.out, "inputs")
        /\ GetItem(rc.out, "inputs") = DictV(rc.inputs)
        /\ Keys(NotInputs(rc.out)) = Keys(rc.output_paths)

\* load_yaml(POWER_YAML) and load_yaml(ORC_YAML) have been called
PowerLoadTried == pc # "load_power"

OrcLoadTried == power_map # None /\ pc # "load_orc"

\* C12, as claimed: a mapping load_yaml returned has at least one input path.
C12_InputPathsNonEmpty ==
    /\ power_map # None => Len(GetItem(power_map.d, "input_paths").d) > 0
    /\ orc_map # None => Len(GetItem(orc_map.d, "input_paths").d) > 0

\* the top level of the document is a mapping
TopIsDict(doc) == doc.isfile /\ doc.data.t = "dict"

\* the document has an input_paths section that is a mapping
HasInputPaths(doc) ==
    /\ TopIsDict(doc)
    /\ Has(doc.data.d, "input_paths")
    /\ GetItem(doc.data.d, "input_paths").t = "dict"

\* the load of the document went as load says: failed with err, or returned
LoadFailedWith(tried, map, err) == tried => (map = None /\ pc = "failed" /\ exc = err)

\* C13, as claimed: a document that exists and has no input_paths mapping
\* fails to load with ConfigMissingSection, whatever its top level is.
C13_Original ==
    /\ (power_yaml.isfile /\ ~HasInputPaths(power_yaml)) =>
          LoadFailedWith(PowerLoadTried, power_map, ConfigMissingSection)
    /\ (orc_yaml.isfile /\ ~HasInputPaths(orc_yaml)) =>
          LoadFailedWith(OrcLoadTried, orc_map, ConfigMissingSection)

\* C13, amended: a document whose top level is a mapping and that has no
\* input_paths mapping fails to load with ConfigMissingSection, an invalid
\* output_paths notwithstanding; a document whose top level is not a
\* mapping fails with ConfigMalformed.
C13_MissingInputPaths ==
    /\ (TopIsDict(power_yaml) /\ ~HasInputPaths(power_yaml)) =>
          LoadFailedWith(PowerLoadTried, power_map, ConfigMissingSection)
    /\ (TopIsDict(orc_yaml) /\ ~HasInputPaths(orc_yaml)) =>
          LoadFailedWith(OrcLoadTried, orc_map, ConfigMissingSection)
    /\ (power_yaml.isfile /\ ~TopIsDict(power_yaml)) =>
          LoadFailedWith(PowerLoadTried, power_map, ConfigMalformed)
    /\ (orc_yaml.isfile /\ ~TopIsDict(orc_yaml)) =>
          LoadFailedWith(OrcLoadTried, orc_map, ConfigMalformed)

\* a document with neither a valid input_paths nor a valid output_paths was
\* refused for its input_paths
C13_Witness ==
    /\ TopIsDict(orc_yaml)
    /\ Has(orc_yaml.data.d, "input_paths")
    /\ ~HasInputPaths(orc_yaml)
    /\ Has(orc_yaml.data.d, "output_paths")
    /\ GetItem(orc_yaml.data.d, "output_paths").t # "dict"
    /\ OrcLoadTried
    /\ exc = ConfigMissingSection

InitGlobals == [POWER_CASE |-> POWER_CASE, ORC_CASE |-> ORC_CASE]

\* __main__ is inside a run_case_fresh call
InCall == pc \in {"power_only", "orc_only", "stage_a", "stage_b"} /\ rc.step # "idle"

\* the dict __main__ passed as inputs, and the mapping it passed as io_map
CallerInputs ==
    IF pc \in {"power_only", "stage_a"} THEN globals.POWER_CASE
    ELSE IF pc = "orc_only" THEN globals.ORC_CASE
    ELSE orc_inputs

CallerMap == IF pc \in {"power_only", "stage_a"} THEN power_map ELSE orc_map

\* C15: POWER_CASE and ORC_CASE always hold what they held at the start;
\* during and after a run_case_fresh call the caller's inputs and io_map
\* hold what was passed; and a loaded mapping, the inputs of a call in
\* progress and the result of stage A, once assigned, never change.
C15_NoMutation ==
    /\ [](/\ globals = InitGlobals
          /\ InCall =>
                /\ rc.inputs = CallerInputs
                /\ rc.input_paths = GetItem(CallerMap.d, "input_paths").d
                /\ rc.output_paths = Get(CallerMap.d, "output_paths", DictV(<< >>)).d)
    /\ [][/\ power_map # None => power_map' = power_map
          /\ orc_map # None => orc_map' = orc_map
          /\ power_res # << >> => power_res' = power_res
          /\ orc_inputs # << >> => orc_inputs' = orc_inputs
          /\ (rc.step # "idle" /\ rc'.step # "idle") =>
                /\ rc'.inputs = rc.inputs
                /\ rc'.input_paths = rc.input_paths
                /\ rc'.output_paths = rc.output_paths]_vars

\* the merge changed fgastemp in orc_inputs and left ORC_CASE alone, and
\* stage B has run on the merged inputs
C15_Witness ==
    /\ pc = "stage_b"
    /\ rc.step = "ret"
    /\ rc.raised = NoErr
    /\ GetItem(orc_inputs, "fgastemp") = Num(1)
    /\ GetItem(globals.ORC_CASE, "fgastemp") = Num(250000)
    /\ GetItem(power_res, "fgastemp") = Num(1)

\* the try block of the current call raised
MidRunFailure ==
    /\ rc.step # "idle"
    /\ rc.aspen # 0
    /\ rc.err \in {UnknownInputName, AddressNotFound, EngineExecutionFailed}

\* C16: once the try block has raised, the one further call on the instance
\* is Close, and it has been made by the time the exception leaves
\* run_case_fresh.
C16_OnlyDisposeAfterFailure ==
    /\ [](MidRunFailure =>
            /\ rc.step \in {"close", "ret"}
            /\ Closes(Cur) = (IF rc.step = "ret" THEN 1 ELSE 0)
            /\ rc.out = << >>)
    /\ [][(MidRunFailure /\ sessions' # sessions) =>
            /\ Len(sessions') = Len(sessions)
            /\ \A k \in DOMAIN sessions :
                  k # rc.aspen => sessions'[k] = sessions[k]
            /\ LET old == sessions[rc.aspen].log
                   new == sessions'[rc.aspen].log
               IN /\ Len(new) = Len(old) + 1
                  /\ SubSeq(new, 1, Len(old)) = old
                  /\ new[Len(new)].op \in CloseOps]_vars

\* Run2 raised after both inputs were set; the instance was closed
C16_Witness ==
    /\ MidRunFailure
    /\ rc.step = "ret"
    /\ rc.raised = EngineExecutionFailed
    /\ Count(Cur.log, {"SetValue"}) = 2
    /\ Cur.log[Len(Cur.log)].op \in CloseOps

RequiredNames == {required[i] : i \in DOMAIN required}

\* extract_for_orc has returned
Extracted == mode = "power_to_orc" /\ pc \in {"merge", "call_b", "stage_b", "done"}

\* C17, as claimed: orc_from_power has no entry for a name of `required`
\* that stage A did not produce.
C17_Original ==
    Extracted => \A n \in Keys(orc_from_power) : Produced(n)

\* C17, amended: orc_from_power has an entry for every name of `required`,
\* None for a name stage A did not produce; such an entry is dropped when
\* orc_from_power is laid over ORC_CASE, so the name keeps its default in
\* orc_inputs, or is no input when it has no default.
C17_AbsentDroppedAtMerge ==
    Extracted =>
        /\ Keys(orc_from_power) = RequiredNames
        /\ \A n \in RequiredNames :
              GetItem(orc_from_power, n) =
                  (IF Produced(n) THEN GetItem(power_res, n) ELSE None)
        /\ Merged =>
              \A n \in RequiredNames :
                  ~Produced(n) =>
                      IF Has(ORC_CASE, n)
                      THEN /\ Has(orc_inputs, n)
                           /\ GetItem(orc_inputs, n) = GetItem(ORC_CASE, n)
                      ELSE ~Has(orc_inputs, n)

\* fgasmsflow is no output of stage A: None in orc_from_power, the default
\* in orc_inputs; fgastemp was read as None
C17_Witness ==
    /\ pc = "call_b"
    /\ ~Has(power_res, "fgasmsflow")
    /\ GetItem(orc_from_power, "fgasmsflow") = None
    /\ GetItem(orc_inputs, "fgasmsflow") = Num(200000)
    /\ Has(power_res, "fgastemp")
    /\ GetItem(power_res, "fgastemp") = None
    /\ GetItem(orc_inputs, "fgastemp") = Num(250000)

\* C19: every input of stage B is a key of ORC_CASE or a name of `required`
\* that stage A produced, and carries the default or the value produced; an
\* output of stage A outside `required` and an input of stage A are inputs of
\* stage B only if ORC_CASE has them; no input of stage B is None unless
\* ORC_CASE says so.
C19_OnlySpecNamesPropagate ==
    Merged =>
        /\ \A n \in Keys(orc_inputs) :
              /\ Has(ORC_CASE, n) \/ (InSpec(n) /\ Produced(n))
              /\ \/ Has(ORC_CASE, n) /\ GetItem(orc_inputs, n) = GetItem(ORC_CASE, n)
                 \/ /\ InSpec(n) /\ Produced(n)
                    /\ GetItem(orc_inputs, n) = GetItem(power_res, n)
              /\ GetItem(orc_inputs, n) = None =>
                    (Has(ORC_CASE, n) /\ GetItem(ORC_CASE, n) = None)
        /\ \A n \in Keys(power_res) \cup Keys(POWER_CASE) :
              (~InSpec(n) /\ ~Has(ORC_CASE, n)) => ~Has(orc_inputs, n)
        /\ (pc = "stage_b" /\ rc.step # "idle") => rc.inputs = orc_inputs

\* stage A produced work, which is no input of stage B, and fgasco, which is
\* set in stage B
C19_Witness ==
    /\ pc = "stage_b"
    /\ rc.step = "set"
    /\ rc.i > 6
    /\ Produced("work")
    /\ ~Has(rc.inputs, "work")
    /\ ~Has(rc.inputs, "fuelfeed")
    /\ Produced("fgasco")
    /\ GetItem(rc.inputs, "fgasco") = Num(1)

\* load_yaml accepts the document
ValidDoc(doc) ==
    /\ HasInputPaths(doc)
    /\ Has(doc.data.d, "output_paths") => GetItem(doc.data.d, "output_paths").t = "dict"

\* C20: no run_case_fresh call is made and no instance is created before
\* both mappings are loaded, so with a document load_yaml rejects, in any
\* mode, the process gets no further than loading and creates no instance.
C20_ConfigCheckedBeforeAnySession ==
    /\ (rc.step # "idle" \/ sessions # << >>) => (power_map # None /\ orc_map # None)
    /\ ~(ValidDoc(power_yaml) /\ ValidDoc(orc_yaml)) =>
          /\ pc \in {"load_power", "load_orc", "failed"}
          /\ rc.step = "idle"
          /\ sessions = << >>

\* mode power_only ended on the ORC document, which it would not use
C20_Witness ==
    /\ mode = "power_only"
    /\ ValidDoc(power_yaml)
    /\ ~ValidDoc(orc_yaml)
    /\ pc = "failed"
    /\ exc = ConfigInvalidSection
    /\ sessions = << >>

\* the state of the chained pipeline
PipelineState ==
    CASE pc \in {"load_power", "load_orc", "select_mode"} -> "Idle"
      [] pc = "stage_a" -> "StageA-Running"
      [] pc = "extract" -> "Extracting"
      [] pc \in {"merge", "call_b"} -> "Merging"
      [] pc = "stage_b" -> "StageB-Running"
      [] pc = "done" -> "Done"
      [] OTHER -> "Failed"

PipelineSteps ==
    { << "Idle", "StageA-Running" >>,
      << "StageA-Running", "Extracting" >>,
      << "Extracting", "Merging" >>,
      << "Merging", "StageB-Running" >>,
      << "StageB-Running", "Done" >>,
      << "StageA-Running", "Failed" >>,
      << "StageB-Running", "Failed" >> }

\* C18, the order of the steps: with both mappings loaded, the chained
\* pipeline changes state only along PipelineSteps.
C18_StepOrder ==
    [][(mode = "power_to_orc" /\ pc = "select_mode" /\ PipelineState' # PipelineState)
          \/ (mode = "power_to_orc" /\ PipelineState # "Idle" /\ PipelineState' # PipelineState)
        => << PipelineState, PipelineState' >> \in PipelineSteps]_vars

\* C18, termination: the chained pipeline reaches Done or Failed.
C18_Terminates == mode = "power_to_orc" => <>(PipelineState \in {"Done", "Failed"})

\* C18, resources: in Done and in Failed every instance created has been
\* closed.
C18_NoSessionLeftOpen ==
    [](mode = "power_to_orc" /\ PipelineState \in {"Done", "Failed"} =>
          \A k \in DOMAIN sessions : Closes(sessions[k]) >= 1)

\* C18: the chained pipeline moves only along PipelineSteps, and every
\* execution reaches Done or Failed with no instance left open.
C18_Original == C18_StepOrder /\ C18_Terminates /\ C18_NoSessionLeftOpen

\* calls i and j of the caller passed the same model, mapping and inputs
SameCase(i, j) ==
    /\ hist[i].model = hist[j].model
    /\ hist[i].input_paths = hist[j].input_paths
    /\ hist[i].output_paths = hist[j].output_paths
    /\ hist[i].inputs = hist[j].inputs

\* some input of the current call, already set, put value v at address p
SetByThisCall(p, v) ==
    \E i \in 1..(rc.i - 1) :
        /\ Has(rc.input_paths, rc.inputs[i].k)
        /\ GetItem(rc.input_paths, rc.inputs[i].k).s = p
        /\ rc.inputs[i].v = v

\* C14: two run_case_fresh calls with the same model, mapping and inputs
\* that both return, return equal result sets against the deterministic
\* engine, whatever was run in between; and until Run2 the tree of the
\* instance a call works on holds, at every address, what the archive holds
\* or what this call itself has set.
C14_FreshInstanceIsolation ==
    /\ \A i, j \in DOMAIN hist :
          (SameCase(i, j) /\ hist[i].raised = NoErr /\ hist[j].raised = NoErr)
              => hist[i].out = hist[j].out
    /\ (rc.step = "set" /\ rc.aspen # 0) =>
          /\ rc.aspen = Len(sessions)
          /\ \A p \in DOMAIN Cur.tree :
                \/ Cur.tree[p] = Archive(rc.model)[p]
                \/ SetByThisCall(p, Cur.tree[p])

\* the first and the third call are the same case and returned the same
\* result set; the call in between set another input of the same model
\* and returned another result
C14_Witness ==
    /\ Len(hist) = 3
    /\ SameCase(1, 3)
    /\ hist[2].model = hist[1].model
    /\ hist[2].inputs # hist[1].inputs
    /\ \A k \in 1..3 : hist[k].raised = NoErr
    /\ hist[1].out = hist[3].out
    /\ hist[2].out # hist[1].out
    /\ GetItem(hist[1].out, "work") = Num(1)
    /\ GetItem(hist[3].out, "fgastemp") = None

====
